---- MODULE Spec2Model ----
(***************************************************************************)
(* Precomputed Straus multiscalar multiplication                           *)
(* (src/backend/serial/scalar_mul/precomputed_straus.rs).                  *)
(*                                                                         *)
(* The group is the cyclic group of order L written additively: the point  *)
(* k*G is the residue k.  A point value carries the name of its coordinate *)
(* representation, so a conversion changes the representation and keeps    *)
(* the group element.  Scalars are the residues 0..L-1.                    *)
(***************************************************************************)
EXTENDS Integers, Sequences, FiniteSets, TLC

\* ------------------------------------------------------------------ bounds

\* Order of the group (and modulus of the scalars).
L == 37

\* Largest number of static points given to new().
MaxStatic == 2

\* Largest number of dynamic scalars / dynamic point entries of one call.
MaxDynamic == 1

\* Largest number of (index, scalar) pairs of one subset call.
MaxPairs == 2

\* ------------------------------------------------------- program constants

\* Exclusive end of the digit range: for j in (0..256).rev()
LOOP_END == 256

\* Window width of the scalar encoding: non_adjacent_form(5)
NAF_WIDTH == 5

\* Number of digits of a NAF digit sequence, d_0 .. d_256.
NAF_DIGITS == 257

\* Entries of a NafLookupTable5 and of a NafLookupTable8.
TABLE5_SIZE == 8
TABLE8_SIZE == 64

\* ------------------------------------------------------------------ points

Pt(rep, k) == [rep |-> rep, pt |-> k % L]

ProjectivePoint_identity == Pt("ProjectivePoint", 0)
EdwardsPoint_identity == Pt("EdwardsPoint", 0)

\* ProjectivePoint::double -> CompletedPoint
double(P) == Pt("CompletedPoint", 2 * P.pt)

\* CompletedPoint::to_extended, ProjectivePoint::to_extended -> EdwardsPoint
to_extended(P) == Pt("EdwardsPoint", P.pt)

\* CompletedPoint::to_projective -> ProjectivePoint
to_projective(P) == Pt("ProjectivePoint", P.pt)

\* &EdwardsPoint + &NielsPoint -> CompletedPoint
PointAdd(A, B) == Pt("CompletedPoint", A.pt + B.pt)

\* &EdwardsPoint - &NielsPoint -> CompletedPoint
PointSub(A, B) == Pt("CompletedPoint", A.pt + L - B.pt)

\* k*P by the group law alone (no tables, no digits).
ScalarMul(k, p) == (k * p) % L

\* Option<EdwardsPoint>
None == [some |-> FALSE, pt |-> 0]
Some(p) == [some |-> TRUE, pt |-> p % L]

\* ------------------------------------------------------------ NAF encoding

Zeros(n) == [k \in 1..n |-> 0]

\* The signed window digit of an odd x: x mod 2^w taken in (-2^(w-1), 2^(w-1)).
WindowDigit(x, w) ==
    LET win == x % (2 ^ w)
    IN  IF win < 2 ^ (w - 1) THEN win ELSE win - 2 ^ w

RECURSIVE NafFrom(_, _, _)
\* The digits at positions pos .. NAF_DIGITS-1 of the value x * 2^pos.
NafFrom(x, pos, w) ==
    IF pos >= NAF_DIGITS THEN << >>
    ELSE IF x = 0 THEN Zeros(NAF_DIGITS - pos)
    ELSE IF x % 2 = 0 THEN <<0>> \o NafFrom(x \div 2, pos + 1, w)
    ELSE LET d    == WindowDigit(x, w)
             gap  == IF pos + w <= NAF_DIGITS THEN w - 1 ELSE NAF_DIGITS - pos - 1
         IN  <<d>> \o Zeros(gap) \o NafFrom((x - d) \div (2 ^ w), pos + w, w)

\* Scalar::non_adjacent_form(w); digit j is element j + 1.
non_adjacent_form(x, w) == NafFrom(x, 0, w)

\* ------------------------------------------------------------ lookup tables

\* NafLookupTable5::<ProjectiveNielsPoint>::from(&P): P, 3P, .., 15P
NafLookupTable5_from(p) ==
    [ rep |-> "ProjectiveNielsPoint",
      multiples |-> [k \in 1..TABLE5_SIZE |-> ((2 * k - 1) * p) % L] ]

\* NafLookupTable8::<AffineNielsPoint>::from(&P): P, 3P, .., 127P
NafLookupTable8_from(p) ==
    [ rep |-> "AffineNielsPoint",
      multiples |-> [k \in 1..TABLE8_SIZE |-> ((2 * k - 1) * p) % L] ]

\* The entry position of select(x).
SelectIndex(x) == (x - 1) \div 2

\* select(x) answers only for a position the table has.
SelectInRange(table, x) == x >= 1 /\ SelectIndex(x) + 1 \in DOMAIN table.multiples

select(table, x) == Pt(table.rep, table.multiples[SelectIndex(x) + 1])

\* ------------------------------------------------------------------ inputs

SeqsUpTo(S, n) == UNION {[1..k -> S] : k \in 0..n}

\* Static points handed to new(): g, 2g, 4g, .. for a starting point g.
StartPool == {1, 3}
PointList(g, n) == [i \in 1..n |-> (g * 2 ^ (i - 1)) % L]
StaticPointLists == {PointList(g, n) : g \in StartPool, n \in 0..MaxStatic}

\* Scalars of the calls (canonical: below L).  5 has the one digit 5; 27 the
\* digits -5 and 1 (positions 0 and 5); 17 the digits -15 and 1, so that the
\* last entry of a width-5 table is read.
StaticScalarPool == {0, 5, 27}
NamedScalarLists == {<<1>>, <<3, 5>>}
DynamicScalarPool == {17}
SubsetScalarPool == {0, 27}
DynamicPointPool == {None, Some(4)}

\* Table indices of the pairs: two low ones and one past every table set.
IndexPool == {0, 1, MaxStatic}

Threads == {1, 2}

\* ------------------------------------------------------------------- state

VARIABLES
    static_points,          \* the points new() was given
    static_lookup_tables,   \* per struct: Vec<NafLookupTable8<AffineNielsPoint>>
    frame                   \* per thread: the locals of the call it runs

vars == <<static_points, static_lookup_tables, frame>>

Straus == "VartimePrecomputedStraus"
SubsetStraus == "VartimePrecomputedSubsetStraus"

Panic == [kind |-> "Panic", point |-> EdwardsPoint_identity]
NoResult == [kind |-> "None", point |-> EdwardsPoint_identity]
Pending == [kind |-> "Pending", point |-> EdwardsPoint_identity]
Found(P) == [kind |-> "Some", point |-> P]

IdleFrame ==
    [ fn |-> "none", pc |-> "idle",
      static_scalars |-> << >>, dynamic_scalars |-> << >>, dynamic_points |-> << >>,
      static_scalars_pos |-> << >>, num_scalars |-> 0,
      static_nafs |-> << >>, dynamic_nafs |-> << >>, dynamic_lookup_tables |-> << >>,
      sp |-> 0, dp |-> 0,
      S |-> ProjectivePoint_identity, R |-> Pt("CompletedPoint", 0),
      j |-> 0, i |-> 0,
      result |-> Pending,
      doubles |-> 0, norms |-> 0, ops |-> << >> ]

\* VartimePrecomputedStraus::new / VartimePrecomputedSubsetStraus::new
new(points) == [k \in DOMAIN points |-> NafLookupTable8_from(points[k])]

Init ==
    /\ static_points \in StaticPointLists
    /\ static_lookup_tables =
         [s \in {Straus, SubsetStraus} |-> new(static_points)]
    /\ frame = [t \in Threads |-> IdleFrame]

\* A call has ended: it returned or it panicked.
Ended(f) == f.pc \in {"returned", "aborted"}

\* No call is running on the thread.
Idle(f) == f.pc = "idle"

Set(t, f) == frame' = [frame EXCEPT ![t] = f]

\* ------------------------------------------------- the folding of one digit

\* `t_ij as usize` in both branches: the negation is forgotten.
QueryArg_NoNegate(t_ij) == t_ij

\* The argument of select: `t_ij as usize` or `-t_ij as usize`.
QueryArg(t_ij) == IF t_ij > 0 THEN t_ij ELSE -t_ij

\* One logged select query.
Query(src, f, base_idx, t_ij) ==
    [ src |-> src, j |-> f.j, i |-> f.i, base_idx |-> base_idx, digit |-> t_ij,
      arg |-> QueryArg(t_ij), op |-> IF t_ij > 0 THEN "add" ELSE "sub" ]

\* Both branches add: the subtraction of the negative digits is lost.
FoldDigit_AddOnly(R, t_ij, table) ==
    IF t_ij # 0 THEN PointAdd(to_extended(R), select(table, QueryArg(t_ij))) ELSE R

\* if t_ij > 0 { R = &R.to_extended() + &table.select(t_ij) }
\* else if t_ij < 0 { R = &R.to_extended() - &table.select(-t_ij) }
FoldDigit(R, t_ij, table) ==
    IF t_ij > 0 THEN PointAdd(to_extended(R), select(table, QueryArg(t_ij)))
    ELSE IF t_ij < 0 THEN PointSub(to_extended(R), select(table, QueryArg(t_ij)))
    ELSE R

\* Vec indexing v[k] with a 0-based k: inside the vector or a panic.
InBounds(v, k) == k + 1 \in DOMAIN v

\* The table is indexed before the digit is looked at.
Folded_EagerIndex(f, src, nafs, tables, base_idx) ==
    IF ~InBounds(nafs, f.i) \/ ~InBounds(tables, base_idx)
    THEN [f EXCEPT !.pc = "aborted", !.result = Panic]
    ELSE
      LET t_ij == nafs[f.i + 1][f.j + 1]
      IN  IF t_ij = 0 THEN f
          ELSE IF ~SelectInRange(tables[base_idx + 1], QueryArg(t_ij))
             THEN [f EXCEPT !.pc = "aborted", !.result = Panic,
                            !.ops = Append(@, Query(src, f, base_idx, t_ij))]
          ELSE [f EXCEPT !.R = FoldDigit(f.R, t_ij, tables[base_idx + 1]),
                         !.ops = Append(@, Query(src, f, base_idx, t_ij))]

\* The frame after the body of one inner-loop iteration, before i advances:
\* digit t_ij of nafs[i] at position j against tables[base_idx].
Folded(f, src, nafs, tables, base_idx) ==
    IF ~InBounds(nafs, f.i) THEN [f EXCEPT !.pc = "aborted", !.result = Panic]
    ELSE
      LET t_ij == nafs[f.i + 1][f.j + 1]
      IN  IF t_ij = 0 THEN f
          ELSE IF ~InBounds(tables, base_idx)
             THEN [f EXCEPT !.pc = "aborted", !.result = Panic]
          ELSE IF ~SelectInRange(tables[base_idx + 1], QueryArg(t_ij))
             THEN [f EXCEPT !.pc = "aborted", !.result = Panic,
                            !.ops = Append(@, Query(src, f, base_idx, t_ij))]
          ELSE [f EXCEPT !.R = FoldDigit(f.R, t_ij, tables[base_idx + 1]),
                         !.ops = Append(@, Query(src, f, base_idx, t_ij))]

\* ------------------------- VartimePrecomputedStraus::optional_mixed_multiscalar_mul

\* The static loop written before the dynamic loop.
PhaseOrder_StaticFirst == <<"static", "dynamic">>

\* The order of the two inner loops of one digit position.
PhaseOrder == <<"dynamic", "static">>

PhaseCount(f, phase) == IF phase = "dynamic" THEN f.dp ELSE f.sp

RECURSIVE PhaseFrom(_, _)
\* The first inner loop, from the k-th on, that has an iteration to run.
PhaseFrom(f, k) ==
    IF k > Len(PhaseOrder) THEN "normalize"
    ELSE IF PhaseCount(f, PhaseOrder[k]) > 0 THEN PhaseOrder[k]
    ELSE PhaseFrom(f, k + 1)

PhaseIndex(phase) == CHOOSE k \in DOMAIN PhaseOrder : PhaseOrder[k] = phase

\* i advances; at the end of an inner loop the next one starts at i = 0.
Advance(f, phase) ==
    IF f.pc = "aborted" THEN f
    ELSE IF f.i + 1 < PhaseCount(f, phase) THEN [f EXCEPT !.i = f.i + 1]
    ELSE [f EXCEPT !.i = 0, !.pc = PhaseFrom(f, PhaseIndex(phase) + 1)]

\* for j in (0..=256).rev(): the range taken inclusive.
FirstPosition_Inclusive == LOOP_END

\* The first digit position the loop visits.
FirstPosition == LOOP_END - 1

\* Entry: the scalars are encoded (both iterators are collected).
CallMixed(t, static_scalars, dynamic_scalars, dynamic_points) ==
    /\ Idle(frame[t])
    /\ Set(t, [IdleFrame EXCEPT
            !.fn = "optional_mixed_multiscalar_mul",
            !.pc = "dynamic_tables",
            !.static_scalars = static_scalars,
            !.dynamic_scalars = dynamic_scalars,
            !.dynamic_points = dynamic_points,
            !.static_nafs =
                [k \in DOMAIN static_scalars |->
                    non_adjacent_form(static_scalars[k], NAF_WIDTH)],
            !.dynamic_nafs =
                [k \in DOMAIN dynamic_scalars |->
                    non_adjacent_form(dynamic_scalars[k], NAF_WIDTH)]])
    /\ UNCHANGED <<static_points, static_lookup_tables>>

\* The absent entries are skipped (a filter_map) instead of failing the call.
CollectTables_SkipAbsent(dynamic_points) ==
    LET present == SelectSeq(dynamic_points, LAMBDA P_opt : P_opt.some)
    IN  [some |-> TRUE,
         pt |-> [k \in DOMAIN present |-> NafLookupTable5_from(present[k].pt)]]

\* collect::<Option<Vec<_>>>(): None as soon as one entry is None.
CollectTables(dynamic_points) ==
    IF \E k \in DOMAIN dynamic_points : ~dynamic_points[k].some
    THEN None
    ELSE [some |-> TRUE,
          pt |-> [k \in DOMAIN dynamic_points |->
                     NafLookupTable5_from(dynamic_points[k].pt)]]

\* let dynamic_lookup_tables = ... .collect::<Option<Vec<_>>>()?;
BuildDynamicTables(t) ==
    LET f == frame[t]
        collected == CollectTables(f.dynamic_points)
    IN  /\ f.pc = "dynamic_tables"
        /\ IF collected.some
           THEN Set(t, [f EXCEPT !.dynamic_lookup_tables = collected.pt,
                                 !.pc = "check_lengths"])
           ELSE Set(t, [f EXCEPT !.result = NoResult, !.pc = "returned"])
        /\ UNCHANGED <<static_points, static_lookup_tables>>

\* Only the first assert is made.
LengthsOk_StaticOnly(sp, dp, static_nafs, dynamic_nafs) == sp = Len(static_nafs)

\* assert_eq!(sp, static_nafs.len()); assert_eq!(dp, dynamic_nafs.len());
LengthsOk(sp, dp, static_nafs, dynamic_nafs) ==
    sp = Len(static_nafs) /\ dp = Len(dynamic_nafs)

\* The frame at the loop head: the next position, or the end of the loop.
LoopHead(f, j, loop) ==
    IF j >= 0 THEN [f EXCEPT !.j = j, !.pc = loop]
    ELSE [f EXCEPT !.pc = "return"]

\* sp, dp, the two asserts, S = identity.
CheckLengths(t) ==
    LET f  == frame[t]
        sp == Len(static_lookup_tables[Straus])
        dp == Len(f.dynamic_lookup_tables)
    IN  /\ f.pc = "check_lengths"
        /\ IF LengthsOk(sp, dp, f.static_nafs, f.dynamic_nafs)
           THEN Set(t, LoopHead([f EXCEPT !.sp = sp, !.dp = dp,
                                          !.S = ProjectivePoint_identity],
                                FirstPosition, "double"))
           ELSE Set(t, [f EXCEPT !.sp = sp, !.dp = dp,
                                 !.result = Panic, !.pc = "aborted"])
        /\ UNCHANGED <<static_points, static_lookup_tables>>

\* let mut R: CompletedPoint = S.double();
Double(t) ==
    LET f == frame[t]
    IN  /\ f.pc = "double"
        /\ Set(t, [f EXCEPT !.R = double(f.S), !.doubles = f.doubles + 1,
                            !.i = 0, !.pc = PhaseFrom(f, 1)])
        /\ UNCHANGED <<static_points, static_lookup_tables>>

\* for i in 0..dp { ... dynamic_nafs[i][j] ... dynamic_lookup_tables[i] ... }
DynamicStep(t) ==
    LET f == frame[t]
    IN  /\ f.pc = "dynamic"
        /\ Set(t, Advance(Folded(f, "dynamic", f.dynamic_nafs,
                                 f.dynamic_lookup_tables, f.i), "dynamic"))
        /\ UNCHANGED <<static_points, static_lookup_tables>>

\* The static step keeps the running point in the first entry of the table it
\* read (a table used as scratch space).
StaticStep_WritesTable(t) ==
    LET f == frame[t]
        g == Advance(Folded(f, "static", f.static_nafs,
                            static_lookup_tables[Straus], f.i), "static")
    IN  /\ f.pc = "static"
        /\ Set(t, g)
        /\ static_lookup_tables' =
             [static_lookup_tables EXCEPT ![Straus][f.i + 1].multiples[1] = g.R.pt]
        /\ UNCHANGED static_points

\* for i in 0..sp { ... static_nafs[i][j] ... self.static_lookup_tables[i] ... }
StaticStep(t) ==
    LET f == frame[t]
    IN  /\ f.pc = "static"
        /\ Set(t, Advance(Folded(f, "static", f.static_nafs,
                                 static_lookup_tables[Straus], f.i), "static"))
        /\ UNCHANGED <<static_points, static_lookup_tables>>

\* S = R.to_projective(); then the next position
Normalize(t) ==
    LET f == frame[t]
    IN  /\ f.pc = "normalize"
        /\ Set(t, LoopHead([f EXCEPT !.S = to_projective(f.R),
                                     !.norms = f.norms + 1],
                           f.j - 1, "double"))
        /\ UNCHANGED <<static_points, static_lookup_tables>>

\* Some(S.to_extended())
ReturnMixed(t) ==
    LET f == frame[t]
    IN  /\ f.pc = "return"
        /\ f.fn = "optional_mixed_multiscalar_mul"
        /\ Set(t, [f EXCEPT !.result = Found(to_extended(f.S)), !.pc = "returned"])
        /\ UNCHANGED <<static_points, static_lookup_tables>>

\* ---------------------- VartimePrecomputedSubsetStraus::vartime_subset_multiscalar_mul

\* Entry: unzip of the pairs, num_scalars, and the encoding of the scalars.
CallSubset(t, pairs) ==
    /\ Idle(frame[t])
    /\ Set(t, [IdleFrame EXCEPT
            !.fn = "vartime_subset_multiscalar_mul",
            !.pc = "check_count",
            !.static_scalars_pos = [k \in DOMAIN pairs |-> pairs[k][1]],
            !.static_scalars = [k \in DOMAIN pairs |-> pairs[k][2]],
            !.num_scalars = Len(pairs),
            !.static_nafs =
                [k \in DOMAIN pairs |-> non_adjacent_form(pairs[k][2], NAF_WIDTH)]])
    /\ UNCHANGED <<static_points, static_lookup_tables>>

\* assert!(num_scalars < sp): the comparison taken strict.
CountOk_Strict(num_scalars, sp) == num_scalars < sp

\* assert!(num_scalars <= sp);
CountOk(num_scalars, sp) == num_scalars <= sp

\* sp, the assert, S = identity.
CheckCount(t) ==
    LET f  == frame[t]
        sp == Len(static_lookup_tables[SubsetStraus])
    IN  /\ f.pc = "check_count"
        /\ IF CountOk(f.num_scalars, sp)
           THEN Set(t, LoopHead([f EXCEPT !.sp = sp, !.S = ProjectivePoint_identity],
                                FirstPosition, "subset_double"))
           ELSE Set(t, [f EXCEPT !.sp = sp, !.result = Panic, !.pc = "aborted"])
        /\ UNCHANGED <<static_points, static_lookup_tables>>

\* let mut R: CompletedPoint = S.double();
SubsetDouble(t) ==
    LET f == frame[t]
    IN  /\ f.pc = "subset_double"
        /\ Set(t, [f EXCEPT !.R = double(f.S), !.doubles = f.doubles + 1, !.i = 0,
                            !.pc = IF f.num_scalars > 0 THEN "subset_static"
                                   ELSE "subset_normalize"])
        /\ UNCHANGED <<static_points, static_lookup_tables>>

\* The table of the i-th pair taken to be table i, as in the full evaluator.
BaseIdx_Position(f) == f.i

\* The table index of the i-th pair: let base_idx = static_scalars_pos[i];
BaseIdx(f) == f.static_scalars_pos[f.i + 1]

\* for i in 0..num_scalars { ... self.static_lookup_tables[base_idx] ... }
SubsetStep(t) ==
    LET f == frame[t]
        g == Folded(f, "static", f.static_nafs,
                    static_lookup_tables[SubsetStraus], BaseIdx(f))
    IN  /\ f.pc = "subset_static"
        /\ Set(t, IF g.pc = "aborted" THEN g
                  ELSE IF f.i + 1 < f.num_scalars THEN [g EXCEPT !.i = f.i + 1]
                  ELSE [g EXCEPT !.i = 0, !.pc = "subset_normalize"])
        /\ UNCHANGED <<static_points, static_lookup_tables>>

\* S = R.to_projective(); then the next position
SubsetNormalize(t) ==
    LET f == frame[t]
    IN  /\ f.pc = "subset_normalize"
        /\ Set(t, LoopHead([f EXCEPT !.S = to_projective(f.R),
                                     !.norms = f.norms + 1],
                           f.j - 1, "subset_double"))
        /\ UNCHANGED <<static_points, static_lookup_tables>>

\* S.to_extended()
ReturnSubset(t) ==
    LET f == frame[t]
    IN  /\ f.pc = "return"
        /\ f.fn = "vartime_subset_multiscalar_mul"
        /\ Set(t, [f EXCEPT !.result = Found(to_extended(f.S)), !.pc = "returned"])
        /\ UNCHANGED <<static_points, static_lookup_tables>>

\* The call is over: its locals are dropped and the thread may call again.
Drop(t) ==
    /\ Ended(frame[t])
    /\ Set(t, IdleFrame)
    /\ UNCHANGED <<static_points, static_lookup_tables>>

\* ----------------------------------------------------------- specifications

MixedStep(t) ==
    \/ BuildDynamicTables(t)
    \/ CheckLengths(t)
    \/ Double(t)
    \/ DynamicStep(t)
    \/ StaticStep(t)
    \/ Normalize(t)
    \/ ReturnMixed(t)

SubsetSteps(t) ==
    \/ CheckCount(t)
    \/ SubsetDouble(t)
    \/ SubsetStep(t)
    \/ SubsetNormalize(t)
    \/ ReturnSubset(t)

\* The arguments the callers pass.
MixedCalls ==
    (SeqsUpTo(StaticScalarPool, MaxStatic) \cup NamedScalarLists)
        \X SeqsUpTo(DynamicScalarPool, MaxDynamic)
        \X SeqsUpTo(DynamicPointPool, MaxDynamic)

SubsetCalls == SeqsUpTo(IndexPool \X SubsetScalarPool, MaxPairs)

\* One caller: calls follow one another on the same table sets.
Next ==
    \/ /\ Idle(frame[1])
       /\ \E a \in MixedCalls : CallMixed(1, a[1], a[2], a[3])
    \/ /\ Idle(frame[1])
       /\ \E pairs \in SubsetCalls : CallSubset(1, pairs)
    \/ MixedStep(1)
    \/ SubsetSteps(1)
    \/ Drop(1)

Spec == Init /\ [][Next]_vars

\* ------------------------------------------ the calls as functions of their inputs

\* What an inner loop leaves when an index panics.
Unwound == [rep |-> "Panic", pt |-> 0]

RECURSIVE InnerLoop(_, _, _, _, _, _)
\* for i in 0..Len(pos): digit nafs[i][j] folded in against tables[pos[i]].
InnerLoop(R, nafs, tables, pos, j, i) ==
    IF R = Unwound \/ i >= Len(pos) THEN R
    ELSE IF ~InBounds(nafs, i) THEN Unwound
    ELSE LET t_ij == nafs[i + 1][j + 1]
         IN  IF t_ij = 0 THEN InnerLoop(R, nafs, tables, pos, j, i + 1)
             ELSE IF ~InBounds(tables, pos[i + 1]) THEN Unwound
             ELSE IF ~SelectInRange(tables[pos[i + 1] + 1], QueryArg(t_ij)) THEN Unwound
             ELSE InnerLoop(FoldDigit(R, t_ij, tables[pos[i + 1] + 1]),
                            nafs, tables, pos, j, i + 1)

\* The indices 0 .. n-1 of for i in 0..n
Range(n) == [k \in 1..n |-> k - 1]

\* The two inner loops of one position, in their order.
Phases(R, j, dynamic_nafs, dynamic_tables, static_nafs, static_tables) ==
    LET run(X, phase) ==
            IF phase = "dynamic"
            THEN InnerLoop(X, dynamic_nafs, dynamic_tables, Range(Len(dynamic_tables)), j, 0)
            ELSE InnerLoop(X, static_nafs, static_tables, Range(Len(static_tables)), j, 0)
    IN  run(run(R, PhaseOrder[1]), PhaseOrder[2])

\* One iteration of the main loop at position j: double, fold, normalize.
MixedIteration(S, j, dynamic_nafs, dynamic_tables, static_nafs, static_tables) ==
    IF S = Unwound THEN S
    ELSE LET R == Phases(double(S), j, dynamic_nafs, dynamic_tables,
                         static_nafs, static_tables)
         IN  IF R = Unwound THEN Unwound ELSE to_projective(R)

RECURSIVE MixedLoop(_, _, _, _, _, _, _)
\* The iterations for the positions hi, hi-1, .., lo in that order (the range
\* is halved so that the evaluation nests only logarithmically deep).
MixedLoop(S, hi, lo, dynamic_nafs, dynamic_tables, static_nafs, static_tables) ==
    IF hi < lo THEN S
    ELSE IF hi = lo
    THEN MixedIteration(S, hi, dynamic_nafs, dynamic_tables, static_nafs, static_tables)
    ELSE LET mid   == (hi + lo) \div 2
             upper == MixedLoop(S, hi, mid + 1, dynamic_nafs, dynamic_tables,
                                static_nafs, static_tables)
         IN  IF upper = Unwound THEN Unwound
             ELSE MixedLoop(upper, mid, lo, dynamic_nafs, dynamic_tables,
                            static_nafs, static_tables)

Encode(scalars) == [k \in DOMAIN scalars |-> non_adjacent_form(scalars[k], NAF_WIDTH)]

\* The outcome of one whole call of the full evaluator.
optional_mixed_multiscalar_mul(tables, static_scalars, dynamic_scalars, dynamic_points) ==
    LET collected == CollectTables(dynamic_points)
    IN  IF ~collected.some THEN NoResult
        ELSE IF ~LengthsOk(Len(tables), Len(collected.pt),
                           Encode(static_scalars), Encode(dynamic_scalars))
        THEN Panic
        ELSE LET S == MixedLoop(ProjectivePoint_identity, FirstPosition, 0,
                                Encode(dynamic_scalars), collected.pt,
                                Encode(static_scalars), tables)
             IN  IF S = Unwound THEN Panic ELSE Found(to_extended(S))

\* One iteration of the subset main loop at position j.
SubsetIteration(S, j, static_nafs, tables, static_scalars_pos) ==
    IF S = Unwound THEN S
    ELSE LET R == InnerLoop(double(S), static_nafs, tables, static_scalars_pos, j, 0)
         IN  IF R = Unwound THEN Unwound ELSE to_projective(R)

RECURSIVE SubsetLoop(_, _, _, _, _, _)
\* The iterations for the positions hi, hi-1, .., lo in that order.
SubsetLoop(S, hi, lo, static_nafs, tables, static_scalars_pos) ==
    IF hi < lo THEN S
    ELSE IF hi = lo
    THEN SubsetIteration(S, hi, static_nafs, tables, static_scalars_pos)
    ELSE LET mid   == (hi + lo) \div 2
             upper == SubsetLoop(S, hi, mid + 1, static_nafs, tables, static_scalars_pos)
         IN  IF upper = Unwound THEN Unwound
             ELSE SubsetLoop(upper, mid, lo, static_nafs, tables, static_scalars_pos)

\* The outcome of one whole call of the subset evaluator.
vartime_subset_multiscalar_mul(tables, pairs) ==
    IF ~CountOk(Len(pairs), Len(tables)) THEN Panic
    ELSE LET S == SubsetLoop(ProjectivePoint_identity, FirstPosition, 0,
                             [k \in DOMAIN pairs |->
                                 non_adjacent_form(pairs[k][2], NAF_WIDTH)],
                             tables,
                             [k \in DOMAIN pairs |-> pairs[k][1]])
         IN  IF S = Unwound THEN Panic ELSE Found(to_extended(S))

\* -------------------------------------------------------------- vocabulary

MixedFn == "optional_mixed_multiscalar_mul"
SubsetFn == "vartime_subset_multiscalar_mul"

RECURSIVE NaiveSum(_, _)
\* sum of scalars[k] * points[k], by the group law alone.
NaiveSum(scalars, points) ==
    IF scalars = << >> THEN 0
    ELSE (ScalarMul(Head(scalars), Head(points))
            + NaiveSum(Tail(scalars), Tail(points))) % L

AllPresent(dynamic_points) == \A k \in DOMAIN dynamic_points : dynamic_points[k].some

PointsOf(dynamic_points) == [k \in DOMAIN dynamic_points |-> dynamic_points[k].pt]

\* The length preconditions of the full evaluator, on the arguments.
LengthsMatch(f) ==
    /\ Len(f.static_scalars) = Len(static_points)
    /\ Len(f.dynamic_scalars) = Len(f.dynamic_points)

\* The pairs of a subset call, from its frame.
PairsOf(f) == [k \in DOMAIN f.static_scalars_pos |->
                  <<f.static_scalars_pos[k], f.static_scalars[k]>>]

InLoop(f) == f.pc \in {"double", "dynamic", "static", "normalize",
                       "subset_double", "subset_static", "subset_normalize"}

\* ------------------------------------------------------------------ claims

\* C1: a call of optional_mixed_multiscalar_mul whose dynamic points are all
\* present and whose lengths match ends by returning Some of the naive sum
\* a_1*P_1 + .. + a_n*P_n + b_1*Q_1 + .. + b_m*Q_m; in particular tables for
\* [G, 2G] with static scalars [3, 5] and no dynamic entries give 13*G.
C1_MixedEqualsNaiveSum ==
    \A t \in Threads :
        LET f == frame[t]
        IN  (f.fn = MixedFn /\ Ended(f) /\ AllPresent(f.dynamic_points) /\ LengthsMatch(f))
            => /\ f.result =
                    Found(Pt("EdwardsPoint",
                             NaiveSum(f.static_scalars, static_points)
                               + NaiveSum(f.dynamic_scalars, PointsOf(f.dynamic_points))))
               /\ (static_points = <<1, 2>> /\ f.static_scalars = <<3, 5>>
                     /\ f.dynamic_points = << >>)
                    => f.result.point.pt = 13 % L

\* A call with two static terms and a dynamic term, two of the scalars with a
\* negative digit, has returned its point.
C1_Witness ==
    LET f == frame[1]
    IN  /\ f.fn = MixedFn /\ f.pc = "returned"
        /\ static_points = <<1, 2>> /\ f.static_scalars = <<27, 5>>
        /\ f.dynamic_scalars = <<17>> /\ f.dynamic_points = <<Some(4)>>
        /\ f.result = Found(Pt("EdwardsPoint", 27 * 1 + 5 * 2 + 17 * 4))

\* C2: a call of optional_mixed_multiscalar_mul with an absent dynamic point
\* returns None, whatever the other arguments are, and never enters the main
\* loop: no doubling, no addition, no subtraction, no normalization.
C2_AbsentPointReturnsNoneBeforeLoop ==
    \A t \in Threads :
        LET f == frame[t]
        IN  (f.fn = MixedFn /\ ~AllPresent(f.dynamic_points))
            => /\ f.pc \in {"dynamic_tables", "returned"}
               /\ f.doubles = 0 /\ f.norms = 0 /\ f.ops = << >>
               /\ Ended(f) => f.result = NoResult

\* A call with an absent dynamic point and nonzero static scalars has returned.
C2_Witness ==
    LET f == frame[1]
    IN  /\ f.fn = MixedFn /\ f.pc = "returned" /\ f.result = NoResult
        /\ f.static_scalars = <<27, 5>> /\ Len(static_points) = 2
        /\ f.dynamic_scalars = <<17>> /\ f.dynamic_points = <<None>>

\* C3 as stated: every call of optional_mixed_multiscalar_mul that violates a
\* length precondition ends in a panic, for every choice of scalars and
\* dynamic point entries.
C3_Original ==
    \A t \in Threads :
        LET f == frame[t]
        IN  (f.fn = MixedFn /\ Ended(f) /\ ~LengthsMatch(f)) => f.result = Panic

\* C3 amended: a call of optional_mixed_multiscalar_mul that violates a length
\* precondition panics before the main loop when every dynamic point entry is
\* present, and returns None when one is absent (the absence is met first).
C3_LengthViolation ==
    \A t \in Threads :
        LET f == frame[t]
        IN  (f.fn = MixedFn /\ ~LengthsMatch(f))
            => /\ ~InLoop(f) /\ f.pc # "return" /\ f.doubles = 0
               /\ Ended(f) =>
                    f.result = IF AllPresent(f.dynamic_points) THEN Panic ELSE NoResult

\* A call with one dynamic scalar too many, all points present, has panicked.
C3_Witness ==
    LET f == frame[1]
    IN  /\ f.fn = MixedFn /\ f.pc = "aborted" /\ f.result = Panic
        /\ Len(f.static_scalars) = Len(static_points)
        /\ f.dynamic_scalars = <<17>> /\ f.dynamic_points = << >>

\* The static scalar vector of length n with each pair's scalar at its index.
Scatter(pairs, n) ==
    [k \in 1..n |->
        IF \E m \in DOMAIN pairs : pairs[m][1] = k - 1
        THEN pairs[CHOOSE m \in DOMAIN pairs : pairs[m][1] = k - 1][2]
        ELSE 0]

InRange(f, k) == f.static_scalars_pos[k] < Len(static_points)

DistinctInRange(f) ==
    /\ \A k \in DOMAIN f.static_scalars_pos : InRange(f, k)
    /\ \A k, m \in DOMAIN f.static_scalars_pos :
          k # m => f.static_scalars_pos[k] # f.static_scalars_pos[m]

\* The points the pairs of a subset call name (the identity for an index past
\* the table set).
PairPoints(f) ==
    [k \in DOMAIN f.static_scalars_pos |->
        IF InRange(f, k) THEN static_points[f.static_scalars_pos[k] + 1] ELSE 0]

\* C4: a call of vartime_subset_multiscalar_mul on pairs with distinct
\* in-range indices ends with the outcome of optional_mixed_multiscalar_mul
\* over tables built from the same points, called with no dynamic entries and
\* the static scalar vector that holds each pair's scalar at its index and zero
\* elsewhere; that outcome is the sum of scalar * P_index over the pairs.
C4_SubsetEqualsMixed ==
    \A t \in Threads :
        LET f == frame[t]
        IN  (f.fn = SubsetFn /\ Ended(f) /\ DistinctInRange(f))
            => /\ f.result =
                    optional_mixed_multiscalar_mul(
                        static_lookup_tables[Straus],
                        Scatter(PairsOf(f), Len(static_points)), << >>, << >>)
               /\ f.result =
                    Found(Pt("EdwardsPoint", NaiveSum(f.static_scalars, PairPoints(f))))

\* A subset call naming the tables out of order, both scalars with a negative
\* digit, has returned.
C4_Witness ==
    LET f == frame[1]
    IN  /\ f.fn = SubsetFn /\ f.pc = "returned"
        /\ static_points = <<3, 6>>
        /\ f.static_scalars_pos = <<1, 0>> /\ f.static_scalars = <<27, 27>>
        /\ f.result = Found(Pt("EdwardsPoint", 27 * 6 + 27 * 3))

IsDuplicatePair(f) ==
    /\ f.fn = SubsetFn
    /\ Len(f.static_scalars_pos) = 2
    /\ f.static_scalars_pos[1] = f.static_scalars_pos[2]
    /\ InRange(f, 1)

\* The outcome of the call on the single pair (i, k1 + k2 mod L).
MergedOutcome(f) ==
    vartime_subset_multiscalar_mul(
        static_lookup_tables[SubsetStraus],
        << <<f.static_scalars_pos[1],
             (f.static_scalars[1] + f.static_scalars[2]) % L>> >>)

\* C5 as stated: for every table set, of any size, a single table included,
\* vartime_subset_multiscalar_mul([(i,k1),(i,k2)]) ends with the outcome of
\* vartime_subset_multiscalar_mul([(i, k1+k2)]).
C5_Original ==
    \A t \in Threads :
        LET f == frame[t]
        IN  (IsDuplicatePair(f) /\ Ended(f)) => f.result = MergedOutcome(f)

\* C5 amended: for every table set of at least two tables,
\* vartime_subset_multiscalar_mul([(i,k1),(i,k2)]) returns the point that
\* vartime_subset_multiscalar_mul([(i, k1+k2)]) returns; duplicate indices are
\* not rejected and both contributions apply.
C5_DuplicateIndex ==
    \A t \in Threads :
        LET f == frame[t]
        IN  (IsDuplicatePair(f) /\ Ended(f) /\ Len(static_points) >= 2)
            => /\ f.result.kind = "Some"
               /\ f.result = MergedOutcome(f)

\* A subset call with the same index twice, both scalars nonzero, has returned.
C5_Witness ==
    LET f == frame[1]
    IN  /\ f.fn = SubsetFn /\ f.pc = "returned"
        /\ static_points = <<3, 6>>
        /\ f.static_scalars_pos = <<1, 1>> /\ f.static_scalars = <<27, 27>>
        /\ f.result = Found(Pt("EdwardsPoint", ((27 + 27) % L) * 6))

\* The call passed its precondition checks (and met no absent dynamic point).
PassedChecks(f) ==
    \/ f.fn = MixedFn /\ AllPresent(f.dynamic_points) /\ LengthsMatch(f)
    \/ f.fn = SubsetFn /\ Len(f.static_scalars_pos) <= Len(static_points)

\* Every pair of a subset call names a table or carries the scalar zero.
IndexSafe(f) ==
    f.fn = SubsetFn =>
        \A k \in DOMAIN f.static_scalars_pos : InRange(f, k) \/ f.static_scalars[k] = 0

ExpectedQuery(src, j, i, d) ==
    [ src |-> src, j |-> j, i |-> i, base_idx |-> i, digit |-> d,
      arg |-> IF d > 0 THEN d ELSE -d, op |-> IF d > 0 THEN "add" ELSE "sub" ]

RECURSIVE InnerOps(_, _, _, _)
\* The queries of one inner loop at position j, by increasing i.
InnerOps(src, nafs, j, i) ==
    IF i >= Len(nafs) THEN << >>
    ELSE (IF nafs[i + 1][j + 1] # 0
          THEN <<ExpectedQuery(src, j, i, nafs[i + 1][j + 1])>> ELSE << >>)
         \o InnerOps(src, nafs, j, i + 1)

RECURSIVE LoopOps(_, _, _, _)
\* The queries of the positions hi, hi-1, .., lo: at each position the dynamic
\* terms first, then the static terms.
LoopOps(dynamic_nafs, static_nafs, hi, lo) ==
    IF hi < lo THEN << >>
    ELSE IF hi = lo
    THEN InnerOps("dynamic", dynamic_nafs, hi, 0) \o InnerOps("static", static_nafs, hi, 0)
    ELSE LET mid   == (hi + lo) \div 2
             upper == LoopOps(dynamic_nafs, static_nafs, hi, mid + 1)
         IN  IF Len(upper) >= 0
             THEN upper \o LoopOps(dynamic_nafs, static_nafs, mid, lo)
             ELSE << >>

\* Query a comes before query b in the fixed order of the loop.
Before(a, b) ==
    \/ a.j > b.j
    \/ a.j = b.j /\ a.src = "dynamic" /\ b.src = "static"
    \/ a.j = b.j /\ a.src = b.src /\ a.i < b.i

\* C8: in each iteration of the main loop of optional_mixed_multiscalar_mul
\* the accumulator is doubled first, then the dynamic contributions are folded
\* in by increasing i, then the static contributions by increasing i, and the
\* normalization comes last; no static contribution precedes a dynamic one of
\* the same position, and the sequence of doublings, additions and
\* subtractions of a call is a function of its inputs.
C8_FixedOrder ==
    \A t \in Threads :
        LET f == frame[t]
        IN  f.fn = MixedFn
            => /\ \A k \in 1..(Len(f.ops) - 1) : Before(f.ops[k], f.ops[k + 1])
               /\ f.pc = "double"
                    => f.norms = f.doubles /\ \A k \in DOMAIN f.ops : f.ops[k].j > f.j
               /\ f.pc \in {"dynamic", "static", "normalize"}
                    => f.doubles = f.norms + 1 /\ \A k \in DOMAIN f.ops : f.ops[k].j >= f.j
               /\ f.pc = "dynamic"
                    => \A k \in DOMAIN f.ops :
                          f.ops[k].j = f.j => f.ops[k].src = "dynamic" /\ f.ops[k].i < f.i
               /\ f.pc = "static"
                    => \A k \in DOMAIN f.ops :
                          (f.ops[k].j = f.j /\ f.ops[k].src = "static") => f.ops[k].i < f.i
               /\ (f.pc = "returned" /\ f.result.kind = "Some")
                    => /\ f.ops = LoopOps(Encode(f.dynamic_scalars),
                                          Encode(f.static_scalars), LOOP_END - 1, 0)
                       /\ f.doubles = LOOP_END /\ f.norms = LOOP_END

\* At position 0 the dynamic term has been subtracted and the static loop is
\* about to fold in the first static term, whose digit there is nonzero too.
C8_Witness ==
    LET f == frame[1]
    IN  /\ f.fn = MixedFn /\ f.pc = "static" /\ f.j = 0 /\ f.i = 0
        /\ f.static_scalars = <<27, 5>> /\ f.dynamic_scalars = <<17>>
        /\ f.static_nafs[1][1] # 0
        /\ Len(f.ops) = 3 /\ f.ops[3].src = "dynamic" /\ f.ops[3].j = 0
        /\ f.ops[2].src = "static" /\ f.ops[2].j = 5

Abs(d) == IF d >= 0 THEN d ELSE -d

\* C9: in both evaluators every select query has an odd positive argument,
\* the absolute value of a nonzero NAF digit of the call, at most 15; a
\* positive digit leads to an addition, a negative one to a subtraction of
\* select(-digit); the entry position (d-1)/2 is within the 8 entries of a
\* width-5 table and the 64 entries of a width-8 table.
C9_SelectArguments ==
    \A t \in Threads :
        LET f == frame[t]
        IN  \A k \in DOMAIN f.ops :
                LET q      == f.ops[k]
                    nafs   == IF q.src = "dynamic" THEN f.dynamic_nafs ELSE f.static_nafs
                    tables == IF q.src = "dynamic" THEN f.dynamic_lookup_tables
                              ELSE IF f.fn = MixedFn THEN static_lookup_tables[Straus]
                              ELSE static_lookup_tables[SubsetStraus]
                IN  /\ q.digit # 0
                    /\ q.digit = nafs[q.i + 1][q.j + 1]
                    /\ q.arg = Abs(q.digit)
                    /\ q.arg % 2 = 1
                    /\ q.arg >= 1 /\ q.arg <= 15
                    /\ q.op = (IF q.digit > 0 THEN "add" ELSE "sub")
                    /\ SelectIndex(q.arg) \in 0..(TABLE5_SIZE - 1)
                    /\ SelectIndex(q.arg) \in 0..(TABLE8_SIZE - 1)
                    /\ InBounds(tables, q.base_idx)
                    /\ SelectInRange(tables[q.base_idx + 1], q.arg)

\* A call has subtracted select(15) for the digit -15 of the scalar 17, from
\* the last entry of a dynamic table, and added select(5) for the digit 5 of
\* the scalar 5.
C9_Witness ==
    LET f == frame[1]
    IN  /\ f.fn = MixedFn /\ f.pc = "returned"
        /\ \E k \in DOMAIN f.ops :
              /\ f.ops[k].src = "dynamic" /\ f.ops[k].op = "sub" /\ f.ops[k].arg = 15
              /\ SelectIndex(f.ops[k].arg) = TABLE5_SIZE - 1
        /\ \E k \in DOMAIN f.ops :
              f.ops[k].src = "static" /\ f.ops[k].op = "add" /\ f.ops[k].arg = 5

\* The pairs of a subset call whose index is past the table set.
OutOfRange(f) == {k \in DOMAIN f.static_scalars_pos : ~InRange(f, k)}

\* C10: vartime_subset_multiscalar_mul checks only the number of pairs.  A
\* call that passes the count check panics exactly when a pair with an index
\* past the table set has a nonzero scalar, and it panics inside the main
\* loop, at the first visited position where such a pair has a nonzero digit;
\* otherwise it returns, and a pair past the table set with scalar zero
\* contributes nothing.
C10_UncheckedIndex ==
    \A t \in Threads :
        LET f == frame[t]
        IN  (f.fn = SubsetFn /\ Len(f.static_scalars_pos) <= Len(static_points))
            => /\ f.pc = "aborted"
                    => /\ f.doubles >= 1
                       /\ f.i + 1 \in OutOfRange(f)
                       /\ f.static_scalars[f.i + 1] # 0
                       /\ f.static_nafs[f.i + 1][f.j + 1] # 0
                       /\ \A m \in OutOfRange(f) :
                            /\ \A jj \in (f.j + 1)..(LOOP_END - 1) :
                                  f.static_nafs[m][jj + 1] = 0
                            /\ m < f.i + 1 => f.static_nafs[m][f.j + 1] = 0
               /\ Ended(f)
                    => (f.pc = "aborted"
                          <=> \E k \in OutOfRange(f) : f.static_scalars[k] # 0)
               /\ f.pc = "returned"
                    => f.result =
                         Found(Pt("EdwardsPoint",
                                  NaiveSum(f.static_scalars, PairPoints(f))))

\* A call with a valid pair first and a pair past the table set second, both
\* scalars 27, has panicked at position 5, the top nonzero digit of 27.
C10_Witness ==
    LET f == frame[1]
    IN  /\ f.fn = SubsetFn /\ f.pc = "aborted"
        /\ Len(static_points) = 2
        /\ f.static_scalars_pos = <<0, MaxStatic>> /\ f.static_scalars = <<27, 27>>
        /\ f.j = 5 /\ f.i = 1 /\ Len(f.ops) = 1

\* --------------------------------------------- two callers of one table set

\* The calls of the two threads.  The first makes a full call with a dynamic
\* point, one with an absent point, one with a length mismatch, or a subset
\* call; the second makes a full call.
ConcMixedCalls(t) ==
    IF t = 1
    THEN { << <<5>>, <<27>>, <<Some(4)>> >>,
           << <<27>>, <<27>>, <<None>> >>,
           << << >>, << >>, << >> >> }
    ELSE { << <<27>>, << >>, << >> >> }

ConcSubsetCalls(t) ==
    IF t = 1 THEN { << <<0, 27>> >> } ELSE { }

\* The static points of the table sets the two threads share.
ConcPoints == <<3>>

InitConc ==
    /\ static_points = ConcPoints
    /\ static_lookup_tables = [s \in {Straus, SubsetStraus} |-> new(static_points)]
    /\ frame = [t \in Threads |-> IdleFrame]

\* The steps of the calls of the two threads interleave in any order.
NextConc ==
    \E t \in Threads :
        \/ /\ Idle(frame[t])
           /\ \E a \in ConcMixedCalls(t) : CallMixed(t, a[1], a[2], a[3])
        \/ /\ Idle(frame[t])
           /\ \E pairs \in ConcSubsetCalls(t) : CallSubset(t, pairs)
        \/ MixedStep(t)
        \/ SubsetSteps(t)
        \/ Drop(t)

SpecConc == InitConc /\ [][NextConc]_vars

\* The outcome of each call of the threads when it runs alone on the tables
\* new() built.
AloneMixed ==
    [a \in UNION {ConcMixedCalls(t) : t \in Threads} |->
        optional_mixed_multiscalar_mul(new(ConcPoints), a[1], a[2], a[3])]

AloneSubset ==
    [pairs \in UNION {ConcSubsetCalls(t) : t \in Threads} |->
        vartime_subset_multiscalar_mul(new(ConcPoints), pairs)]

RunAlone(f) ==
    IF f.fn = MixedFn
    THEN AloneMixed[<<f.static_scalars, f.dynamic_scalars, f.dynamic_points>>]
    ELSE AloneSubset[PairsOf(f)]

BuiltTables == [s \in {Straus, SubsetStraus} |-> new(ConcPoints)]

\* C7: no call changes the table set new() built, whether it returns a point,
\* returns None or panics; and when the steps of calls sharing the table sets
\* interleave, each call ends with the outcome it has when it runs alone.
C7_TablesImmutable ==
    /\ static_lookup_tables = BuiltTables
    /\ \A t \in Threads : Ended(frame[t]) => frame[t].result = RunAlone(frame[t])

\* Both threads have returned their points from calls that ran at once.
C7_Witness ==
    /\ frame[1].pc = "returned" /\ frame[1].fn = MixedFn
    /\ frame[1].result = Found(Pt("EdwardsPoint", 5 * 3 + 27 * 4))
    /\ frame[2].pc = "returned" /\ frame[2].fn = MixedFn
    /\ frame[2].result = Found(Pt("EdwardsPoint", 27 * 3))

====
